---------------------------- MODULE Spec2Model ----------------------------
(***************************************************************************)
(* The todo/calendar assistant backend: the session manager                *)
(* (backboard_client.py), the SQLite store (database_client.py) and the    *)
(* ReAct tool loop (workflow.py), driven by a simulated provider.          *)
(*                                                                         *)
(* Identities handed out by the provider are the naturals 1, 2, ...; 0 is  *)
(* Python's None.  Time is counted in minutes.                             *)
(***************************************************************************)
EXTENDS Integers, Sequences, FiniteSets, TLC

(***************************************************************************)
(* Bounds of the model.                                                    *)
(***************************************************************************)
MaxTicks == 3
MaxProviderCalls == 3

(***************************************************************************)
(* Program constants.                                                      *)
(***************************************************************************)
session_ttl_minutes == 120

Owners == {"u1", "u2"}
NoId == 0
\* Clock advances of one minute and of one minute less than the default ttl, so
\* that the minute before, the minute of and the minute after an expiry occur.
Deltas == {1, session_ttl_minutes - 1}
\* ttl_minutes as a caller may pass it: -1 stands for "not supplied" (None).
TtlNotSupplied == -1
TtlArgs == {TtlNotSupplied, 1}

VARIABLES
    now,         \* datetime.now(timezone.utc), in minutes
    ticks,       \* how often the clock has advanced (bounds the run)
    assistants,  \* table backboard_assistants: user_id -> assistant_id
    threads,     \* table backboard_threads: user_id -> (thread_id, expires_at)
    prov,        \* the provider: identities issued and calls received
    db,          \* the tables todos, tags and todo_tags
    createdFor,  \* history: the user_id each todo row was created with, which
                 \* create_todo receives and the todos table has no column for
    pm,          \* the process_message invocation in progress or last ended
    last,        \* the call that returned since the clock last advanced, if any
    workers      \* the threads handle_message has started, in the order started

vars == <<now, ticks, assistants, threads, prov, db, createdFor, pm, last, workers>>

NoThread == [thread_id |-> NoId, expires_at |-> 0]

(***************************************************************************)
(* The store of identifiers (SQLiteDatabaseClient, BackboardStore part).   *)
(* A store S is the record [a |-> assistants, t |-> threads].              *)
(***************************************************************************)
get_assistant_id(S, u) == S.a[u]

set_assistant_id(S, u, aid) == [S EXCEPT !.a[u] = aid]

clear_active_thread(S, u) == [S EXCEPT !.t[u] = NoThread]

set_active_thread(S, u, tid, exp) ==
    [S EXCEPT !.t[u] = [thread_id |-> tid, expires_at |-> exp]]

\* A variant that keeps a record alive through the minute of its expiry.
IsExpiredLate(t, expires_at) == t > expires_at

\* database_client.py:390: datetime.now(timezone.utc) >= expires_at
IsExpired(t, expires_at) == t >= expires_at

\* Returns the store (an expired row is deleted by the read) and the record read,
\* NoThread for None.
get_active_thread(S, u, t) ==
    IF S.t[u].thread_id = NoId
    THEN [S |-> S, rec |-> NoThread]
    ELSE IF IsExpired(t, S.t[u].expires_at)
         THEN [S |-> clear_active_thread(S, u), rec |-> NoThread]
         ELSE [S |-> S, rec |-> S.t[u]]

(***************************************************************************)
(* The provider (BackboardClientProto).  P is the record prov; `ok` is the *)
(* outcome the environment chooses for the round trip.                     *)
(***************************************************************************)
\* BackboardDefaults.system_prompt (lines 87-94), the text of the system prompt.
DefaultSystemPrompt == "You are the in-app AI assistant"

\* prompts is the system prompt the provider holds for the assistant of each
\* owner, "none" while the owner has no assistant.
ProvInit ==
    [assistantsIssued |-> 0,
     prompts          |-> [u \in Owners |-> "none"],
     threadsIssued    |-> 0,
     createCalls      |-> [u \in Owners |-> 0],
     updateCalls      |-> 0,
     threadCalls      |-> 0,
     deleteCalls      |-> {},
     sent             |-> 0]

ProviderCalls(P) ==
    P.updateCalls + P.threadCalls + P.sent
        + P.createCalls["u1"] + P.createCalls["u2"]

(***************************************************************************)
(* BackboardWrapper.ensure_assistant.  kw is the record of the keyword     *)
(* arguments that matter: system_prompt ("" or a text, "None" when not     *)
(* given) and tools (TRUE when a tool list is passed).                     *)
(* Result: [S, P, ret, exc, swallowed] with exc = "" when the call         *)
(* returned and swallowed when update_assistant failed and was ignored.    *)
(***************************************************************************)
NoKw == [system_prompt |-> "None", tools |-> FALSE]

\* A variant without the reuse of the stored identity.
ensure_assistant_no_reuse(S, P, u, kw, ok) ==
    LET P1 == [P EXCEPT !.createCalls[u] = @ + 1] IN
    IF ~ok
    THEN [S |-> S, P |-> P1, ret |-> NoId, exc |-> "ProviderError", swallowed |-> FALSE]
    ELSE LET aid == P1.assistantsIssued + 1 IN
         [S   |-> set_assistant_id(S, u, aid),
          P   |-> [P1 EXCEPT !.assistantsIssued = aid,
                             !.prompts[u] = IF kw.system_prompt \in {"None", ""}
                                            THEN DefaultSystemPrompt
                                            ELSE kw.system_prompt],
          ret |-> aid,
          exc |-> "",
          swallowed |-> FALSE]

ensure_assistant(S, P, u, kw, ok) ==
    LET existing == get_assistant_id(S, u) IN
    IF existing # NoId
    THEN \* lines 137-150: best-effort update, any exception swallowed
         LET update_kwargs ==
                 (kw.system_prompt \notin {"None", ""}) \/ kw.tools
         IN  [S   |-> S,
              P   |-> IF update_kwargs
                      THEN [P EXCEPT !.updateCalls = @ + 1,
                                     !.prompts[u] =
                                         IF ok /\ kw.system_prompt \notin {"None", ""}
                                         THEN kw.system_prompt ELSE @]
                      ELSE P,
              ret |-> existing,
              exc |-> "",
              swallowed |-> update_kwargs /\ ~ok]
    ELSE \* lines 152-168
         LET P1 == [P EXCEPT !.createCalls[u] = @ + 1] IN
         IF ~ok
         THEN [S |-> S, P |-> P1, ret |-> NoId, exc |-> "ProviderError",
               swallowed |-> FALSE]
         ELSE LET aid == P1.assistantsIssued + 1 IN
              [S   |-> set_assistant_id(S, u, aid),
               \* line 154: system_prompt or self.defaults.system_prompt
               P   |-> [P1 EXCEPT !.assistantsIssued = aid,
                                  !.prompts[u] = IF kw.system_prompt \in {"None", ""}
                                                 THEN DefaultSystemPrompt
                                                 ELSE kw.system_prompt],
               ret |-> aid,
               exc |-> "",
               swallowed |-> FALSE]

\* A variant whose read of a live record renews the record's expiry.
start_session_sliding(S, P, u, ttl_minutes, force_new, t, okA, okT) ==
    LET rd  == IF force_new
               THEN [S |-> S, rec |-> NoThread]
               ELSE get_active_thread(S, u, t)
        ttl == IF ttl_minutes # TtlNotSupplied
               THEN ttl_minutes
               ELSE session_ttl_minutes
    IN
    IF rd.rec.thread_id # NoId
    THEN [S |-> set_active_thread(rd.S, u, rd.rec.thread_id, t + ttl),
          P |-> P, ret |-> rd.rec.thread_id, exc |-> ""]
    ELSE LET ea == ensure_assistant(rd.S, P, u, NoKw, okA) IN
         IF ea.exc # ""
         THEN [S |-> ea.S, P |-> ea.P, ret |-> NoId, exc |-> ea.exc]
         ELSE LET P1 == [ea.P EXCEPT !.threadCalls = @ + 1] IN
              IF ~okT
              THEN [S |-> ea.S, P |-> P1, ret |-> NoId, exc |-> "ProviderError"]
              ELSE LET tid == P1.threadsIssued + 1 IN
                   [S   |-> set_active_thread(ea.S, u, tid, t + ttl),
                    P   |-> [P1 EXCEPT !.threadsIssued = tid],
                    ret |-> tid,
                    exc |-> ""]

\* A variant that stores every new session with the default time-to-live.
start_session_default_ttl(S, P, u, ttl_minutes, force_new, t, okA, okT) ==
    LET rd == IF force_new
              THEN [S |-> S, rec |-> NoThread]
              ELSE get_active_thread(S, u, t)
    IN
    IF rd.rec.thread_id # NoId
    THEN [S |-> rd.S, P |-> P, ret |-> rd.rec.thread_id, exc |-> ""]
    ELSE LET ea == ensure_assistant(rd.S, P, u, NoKw, okA) IN
         IF ea.exc # ""
         THEN [S |-> ea.S, P |-> ea.P, ret |-> NoId, exc |-> ea.exc]
         ELSE LET P1 == [ea.P EXCEPT !.threadCalls = @ + 1] IN
              IF ~okT
              THEN [S |-> ea.S, P |-> P1, ret |-> NoId, exc |-> "ProviderError"]
              ELSE LET tid == P1.threadsIssued + 1 IN
                   [S   |-> set_active_thread(ea.S, u, tid, t + session_ttl_minutes),
                    P   |-> [P1 EXCEPT !.threadsIssued = tid],
                    ret |-> tid,
                    exc |-> ""]

(***************************************************************************)
(* BackboardWrapper.start_session.  okA and okT are the outcomes of the    *)
(* create_assistant and create_thread round trips, should they be made.    *)
(***************************************************************************)
start_session(S, P, u, ttl_minutes, force_new, t, okA, okT) ==
    LET rd == IF force_new
              THEN [S |-> S, rec |-> NoThread]
              ELSE get_active_thread(S, u, t)
    IN
    IF rd.rec.thread_id # NoId
    THEN [S |-> rd.S, P |-> P, ret |-> rd.rec.thread_id, exc |-> ""]
    ELSE LET ea == ensure_assistant(rd.S, P, u, NoKw, okA) IN
         IF ea.exc # ""
         THEN [S |-> ea.S, P |-> ea.P, ret |-> NoId, exc |-> ea.exc]
         ELSE LET P1 == [ea.P EXCEPT !.threadCalls = @ + 1] IN
              IF ~okT
              THEN [S |-> ea.S, P |-> P1, ret |-> NoId, exc |-> "ProviderError"]
              ELSE LET tid == P1.threadsIssued + 1
                       ttl == IF ttl_minutes # TtlNotSupplied
                              THEN ttl_minutes
                              ELSE session_ttl_minutes
                   IN  [S   |-> set_active_thread(ea.S, u, tid, t + ttl),
                        P   |-> [P1 EXCEPT !.threadsIssued = tid],
                        ret |-> tid,
                        exc |-> ""]

\* BackboardWrapper.get_session_thread_id
get_session_thread_id(S, u, t) ==
    LET rd == get_active_thread(S, u, t) IN
    [S |-> rd.S, ret |-> rd.rec.thread_id]

\* A variant that clears the local record only after a successful deletion.
end_session_keeps_on_failure(S, P, u, delete_thread, t, okD) ==
    LET rd == get_active_thread(S, u, t) IN
    IF rd.rec.thread_id = NoId
    THEN [S |-> rd.S, P |-> P, ret |-> NoId, exc |-> ""]
    ELSE [S   |-> IF delete_thread /\ ~okD THEN rd.S ELSE clear_active_thread(rd.S, u),
          P   |-> IF delete_thread
                  THEN [P EXCEPT !.deleteCalls = @ \cup {rd.rec.thread_id}]
                  ELSE P,
          ret |-> NoId,
          exc |-> IF delete_thread /\ ~okD THEN "ProviderError" ELSE ""]

(***************************************************************************)
(* BackboardWrapper.end_session.  okD: the outcome of delete_thread.       *)
(***************************************************************************)
end_session(S, P, u, delete_thread, t, okD) ==
    LET rd == get_active_thread(S, u, t) IN
    IF rd.rec.thread_id = NoId
    THEN [S |-> rd.S, P |-> P, ret |-> NoId, exc |-> ""]
    ELSE [S   |-> clear_active_thread(rd.S, u),
          P   |-> IF delete_thread
                  THEN [P EXCEPT !.deleteCalls = @ \cup {rd.rec.thread_id}]
                  ELSE P,
          ret |-> NoId,
          exc |-> IF delete_thread /\ ~okD THEN "ProviderError" ELSE ""]

(***************************************************************************)
(* Python values.  A dict is a function on its keys; None is the string    *)
(* "None"; an observation or a return value is a record with a `kind`.     *)
(***************************************************************************)
None == "None"
Has(d, k) == k \in DOMAIN d
Get(d, k) == IF Has(d, k) THEN d[k] ELSE None
EmptyDict == [k \in {} |-> None]

\* A todo_id as the model may send it: the text of an integer ("1"), the text of
\* a number that is no integer literal ("1.0"), any other text ("x").
IdText(kind, n) == [kind |-> kind, n |-> n]

\* SQLite: WHERE id = ? with a text parameter against an INTEGER column applies
\* numeric affinity to the text, so "1" and "1.0" both select row 1.
SqlIdMatch(row_id, tid) == tid.kind \in {"int", "dec"} /\ tid.n = row_id

\* Python: int("1") is 1, int("1.0") raises ValueError.
PyIntOk(tid) == tid.kind = "int"

ErrorObs(msg) == [kind |-> "error", error |-> msg]
NoneObs == [kind |-> "none"]
Unauthorized == ErrorObs("unauthorized_or_not_found")

(***************************************************************************)
(* The task store (SQLiteDatabaseClient).  D is the record of the tables  *)
(* todos, tags and todo_tags with their AUTOINCREMENT counters.  Every     *)
(* operation returns [D, ret, exc]; exc = "" when it returned.  A write   *)
(* made before an exception stays in the connection's open transaction,    *)
(* where every later read of that connection sees it and the next commit   *)
(* makes it durable: it is kept in D.                                     *)
(***************************************************************************)
DbInit ==
    [todos |-> {}, tags |-> {}, todo_tags |-> {}, seq_todos |-> 0, seq_tags |-> 0]

\* CREATE TABLE todos: there is no user_id column.
TodoColumns == {"id", "title", "description", "completed", "date", "created_at"}

DbRet(D, ret) == [db |-> D, ret |-> ret, exc |-> ""]
DbRaise(D, exc) == [db |-> D, ret |-> NoneObs, exc |-> exc]

_get_todo_tags(D, todo_id) ==
    {tg \in D.tags : <<todo_id, tg.id>> \in D.todo_tags}

get_todo(D, tid) ==
    LET rows == {r \in D.todos : SqlIdMatch(r.id, tid)} IN
    IF rows = {}
    THEN DbRet(D, NoneObs)
    ELSE IF ~PyIntOk(tid)
         THEN DbRaise(D, "ValueError: invalid literal for int()")
         ELSE LET row == CHOOSE r \in rows : TRUE IN
              DbRet(D, [kind |-> "todo", row |-> row,
                         tags |-> _get_todo_tags(D, tid.n)])

\* dict.get on the dict that get_todo built from the row.
TodoGet(todo, key) == IF key \in DOMAIN todo.row THEN todo.row[key] ELSE None

_get_or_create_tag(D, name, color) ==
    LET found == {tg \in D.tags : tg.name = name} IN
    IF found # {}
    THEN [db |-> D, ret |-> (CHOOSE tg \in found : TRUE).id]
    ELSE LET id == D.seq_tags + 1 IN
         [db  |-> [D EXCEPT !.tags = @ \cup {[id |-> id, name |-> name, color |-> color]},
                             !.seq_tags = id],
          ret |-> id]

\* The loop over the tags of create_todo (lines 263-265) and update_todo
\* (lines 326-328), from the i-th tag on.
RECURSIVE LinkTags(_, _, _, _)
LinkTags(D, todo_id, tags, i) ==
    IF i > Len(tags)
    THEN DbRet(D, NoneObs)
    ELSE LET tag == tags[i] IN
         IF Get(tag, "id") \notin {None, 0}
         THEN IF <<todo_id, tag.id>> \in D.todo_tags
              THEN DbRaise(D, "IntegrityError: UNIQUE constraint failed")
              ELSE LinkTags([D EXCEPT !.todo_tags = @ \cup {<<todo_id, tag.id>>}],
                            todo_id, tags, i + 1)
         ELSE IF ~Has(tag, "name")
              THEN DbRaise(D, "KeyError: 'name'")
              ELSE IF ~Has(tag, "color")
                   THEN DbRaise(D, "KeyError: 'color'")
                   ELSE LET g == _get_or_create_tag(D, tag.name, tag.color) IN
                        IF <<todo_id, g.ret>> \in g.db.todo_tags
                        THEN DbRaise(g.db, "IntegrityError: UNIQUE constraint failed")
                        ELSE LinkTags([g.db EXCEPT !.todo_tags = @ \cup {<<todo_id, g.ret>>}],
                                      todo_id, tags, i + 1)

create_todo(D, todo, t) ==
    IF Get(todo, "title") = None
    THEN DbRaise(D, "IntegrityError: NOT NULL constraint failed: todos.title")
    ELSE LET id  == D.seq_todos + 1
             row == [id          |-> id,
                     title       |-> todo.title,
                     description |-> Get(todo, "description"),
                     completed   |-> FALSE,
                     date        |-> Get(todo, "date"),
                     created_at  |-> t]
             db1 == [D EXCEPT !.todos = @ \cup {row}, !.seq_todos = id]
             lk  == IF Has(todo, "tags")
                    THEN LinkTags(db1, id, todo.tags, 1)
                    ELSE DbRet(db1, NoneObs)
         IN  IF lk.exc # ""
             THEN lk
             ELSE get_todo(lk.db, IdText("int", id))

\* ORDER BY created_at DESC; rows of one minute come newest id first.
RECURSIVE NewestFirst(_)
NewestFirst(rows) ==
    IF rows = {}
    THEN <<>>
    ELSE LET top == CHOOSE r \in rows :
                        \A q \in rows :
                            \/ r.created_at > q.created_at
                            \/ r.created_at = q.created_at /\ r.id >= q.id
         IN  <<top>> \o NewestFirst(rows \ {top})

\* def get_all_todos(self): any keyword argument is a TypeError at the call.
get_all_todos(D, kwargs) ==
    IF kwargs # {}
    THEN DbRaise(D, "TypeError: get_all_todos() got an unexpected keyword argument 'user_id'")
    ELSE DbRet(D, [kind  |-> "list",
                    items |-> [i \in 1..Cardinality(D.todos) |->
                                  LET row == NewestFirst(D.todos)[i] IN
                                  [kind |-> "todo", row |-> row,
                                   tags |-> _get_todo_tags(D, row.id)]]])

\* line 318: tags = updates.pop('tags', None) takes the key out of the dict the
\* caller handed in; this is that dict after the call.
PopTags(updates) == [k \in DOMAIN updates \ {"tags"} |-> updates[k]]

update_todo(D, tid, updates) ==
    LET cols == DOMAIN updates \ {"tags"}
        hit  == {r \in D.todos : SqlIdMatch(r.id, tid)}
        new  == {[c \in TodoColumns |-> IF c \in cols THEN updates[c] ELSE r[c]] : r \in hit}
        db1  == [D EXCEPT !.todos = (@ \ hit) \cup new]
        tags == Get(updates, "tags")
    IN  IF cols \ TodoColumns # {}
        THEN DbRaise(D, "OperationalError: no such column")
        ELSE IF hit # {} /\ "title" \in cols /\ updates["title"] = None
        THEN DbRaise(D, "IntegrityError: NOT NULL constraint failed: todos.title")
        ELSE IF tags = None
        THEN get_todo(db1, tid)
        ELSE LET db2 == [db1 EXCEPT !.todo_tags =
                            {l \in @ : ~SqlIdMatch(l[1], tid)}]
                 lk  == LinkTags(db2, tid.n, tags, 1)
             IN  IF lk.exc # "" THEN lk ELSE get_todo(lk.db, tid)

delete_todo(D, tid) ==
    LET hit == {r \in D.todos : SqlIdMatch(r.id, tid)} IN
    DbRet([D EXCEPT !.todos = @ \ hit], [kind |-> "bool", value |-> hit # {}])

mark_complete(D, tid) == update_todo(D, tid, [completed |-> TRUE])

\* lines 344-350: a plain INSERT; tags.name is UNIQUE (line 214).
create_tag(D, tag) ==
    IF ~Has(tag, "name")
    THEN DbRaise(D, "KeyError: 'name'")
    ELSE IF ~Has(tag, "color")
    THEN DbRaise(D, "KeyError: 'color'")
    ELSE IF \E tg \in D.tags : tg.name = tag.name
    THEN DbRaise(D, "IntegrityError: UNIQUE constraint failed: tags.name")
    ELSE LET id == D.seq_tags + 1
             tg == [id |-> id, name |-> tag.name, color |-> tag.color]
         IN  DbRet([D EXCEPT !.tags = @ \cup {tg}, !.seq_tags = id],
                   [kind |-> "tag", id |-> id, name |-> tag.name, color |-> tag.color])

(***************************************************************************)
(* TodoAgentWorkflow: the tools.                                           *)
(***************************************************************************)
tools ==
    <<"create_todo", "get_all_todos", "update_todo", "delete_todo",
      "mark_complete", "analyze_todos">>

\* datetime.now().strftime("%Y-%m-%d")
Today == "today"

RECURSIVE CountTag(_, _, _)
CountTag(D, items, name) ==
    IF items = <<>>
    THEN 0
    ELSE (IF \E tg \in Head(items).tags : tg.name = name THEN 1 ELSE 0)
             + CountTag(D, Tail(items), name)

_analyze_todos(D, user_id) ==
    LET r == IF user_id \notin {None, ""}
             THEN get_all_todos(D, {"user_id"})
             ELSE get_all_todos(D, {})
    IN  IF r.exc # ""
        THEN r
        ELSE LET todos     == r.ret.items
                 total     == Len(todos)
                 completed == Cardinality({i \in 1..total : todos[i].row.completed = TRUE})
                 names     == {tg.name : tg \in UNION {todos[i].tags : i \in 1..total}}
             IN  DbRet(r.db, [kind      |-> "stats",
                              total     |-> total,
                              completed |-> completed,
                              pending   |-> total - completed,
                              tags_distribution |->
                                  [n \in names |-> CountTag(r.db, todos, n)]])

\* lines 137, 142, 147: not todo or todo.get("user_id") != user_id
NotOwned(todo, user_id) ==
    todo = NoneObs \/ TodoGet(todo, "user_id") # user_id

\* The three guarded tools: fetch, test the owner, then call the store.
Guarded(D, user_id, arguments, tool_name) ==
    IF ~Has(arguments, "todo_id")
    THEN DbRaise(D, "KeyError: 'todo_id'")
    ELSE LET tid == arguments["todo_id"]
             g   == get_todo(D, tid)
         IN  IF g.exc # ""
             THEN g
             ELSE IF NotOwned(g.ret, user_id)
                  THEN DbRet(g.db, Unauthorized)
                  ELSE CASE tool_name = "update_todo" ->
                                IF ~Has(arguments, "updates")
                                THEN DbRaise(g.db, "KeyError: 'updates'")
                                ELSE update_todo(g.db, tid, arguments["updates"])
                         [] tool_name = "delete_todo" -> delete_todo(g.db, tid)
                         [] OTHER -> mark_complete(g.db, tid)

\* The arguments dict as the call of _execute_tool leaves it: create_todo works
\* on a copy (line 128); update_todo hands arguments["updates"] itself to the
\* store (line 139), which pops its tags key.
ArgumentsLeft(D, user_id, tool_name, arguments) ==
    IF /\ tool_name = "update_todo"
       /\ Has(arguments, "todo_id")
       /\ Has(arguments, "updates")
       /\ get_todo(D, arguments["todo_id"]).exc = ""
       /\ ~NotOwned(get_todo(D, arguments["todo_id"]).ret, user_id)
    THEN [arguments EXCEPT !["updates"] = PopTags(@)]
    ELSE arguments

_execute_tool(D, user_id, tool_name, arguments, t) ==
    CASE tool_name = "create_todo" ->
            LET a1 == [k \in DOMAIN arguments \cup {"user_id"} |->
                          IF k = "user_id" THEN user_id ELSE arguments[k]]
                a2 == IF Get(a1, "date") \in {None, ""}
                      THEN [k \in DOMAIN a1 \cup {"date"} |->
                               IF k = "date" THEN Today ELSE a1[k]]
                      ELSE a1
            IN  create_todo(D, a2, t)
      [] tool_name = "get_all_todos" -> get_all_todos(D, {"user_id"})
      [] tool_name \in {"update_todo", "delete_todo", "mark_complete"} ->
            Guarded(D, user_id, arguments, tool_name)
      [] tool_name = "analyze_todos" -> _analyze_todos(D, user_id)
      [] OTHER -> DbRaise(D, "ValueError: Unknown tool")

\* lines 336-339: try: result = _execute_tool(...) except Exception as e:
\* result = {"error": str(e)}
Observation(r) == IF r.exc # "" THEN ErrorObs(r.exc) ELSE r.ret

(***************************************************************************)
(* A reply of the provider.  The text of a reply is kept as what the       *)
(* parser's regular expressions and json.loads find in it:                 *)
(*   kind   "none" for a missing content, "str" for a text;                *)
(*   fence  "none", "bare" (```) or "json" (```json) around the text;      *)
(*   body   "empty", "free" (no {...} span) or "braces" (a {...} span),    *)
(*          and for a span: whether json.loads accepts it as an object and *)
(*          the object, the {"action":..,"action_input":{..}} blocks the   *)
(*          permissive scan finds, whether the text holds delete_todo, the *)
(*          "todo_id":".." values, and the quoted thought and final.       *)
(* A JSON null where a dict is expected is JsonNull.                       *)
(***************************************************************************)
JsonNull == [json_null |-> TRUE]
GetD(d, k) == IF Has(d, k) THEN d[k] ELSE JsonNull

NoContent == [kind |-> "none"]
EmptyText == [kind |-> "str", fence |-> "none", body |-> [t |-> "empty"]]
FreeText(text, mentionsDelete, ids) ==
    [kind |-> "str", fence |-> "none",
     body |-> [t |-> "free", text |-> text, delete |-> mentionsDelete, ids |-> ids]]
JsonText(fence, payload) ==
    [kind |-> "str", fence |-> fence,
     body |-> [t |-> "braces", json |-> [ok |-> TRUE, value |-> payload],
               blocks |-> <<>>, delete |-> FALSE, ids |-> <<>>,
               thought |-> Get(payload, "thought"), final |-> Get(payload, "final")]]
BrokenText(blocks, mentionsDelete, ids) ==
    [kind |-> "str", fence |-> "none",
     body |-> [t |-> "braces", json |-> [ok |-> FALSE, value |-> EmptyDict],
               blocks |-> blocks, delete |-> mentionsDelete, ids |-> ids,
               thought |-> None, final |-> None]]

NoParse == [parse |-> "None"]

\* lines 362-363: the two re.sub calls that drop a leading ```/```json and a
\* trailing ```.
StripFence(content) == [content EXCEPT !.fence = "none"]

\* A variant that consults the action-block scan before the strict parse.
_parse_react_json_scan_first(content) ==
    IF content.kind = "none" \/ content.body.t = "empty"
    THEN NoParse
    ELSE LET cleaned == StripFence(content)
             body    == cleaned.body
         IN  IF body.t # "braces"
             THEN NoParse
             ELSE LET payload == IF body.json.ok THEN body.json.value ELSE EmptyDict IN
                  IF body.blocks # <<>>
                  THEN [thought |-> IF body.thought # None THEN body.thought ELSE "",
                        actions |-> [islist |-> TRUE, items |-> body.blocks],
                        final   |-> IF body.final # None THEN body.final ELSE ""]
                  ELSE IF payload # EmptyDict
                          /\ (Has(payload, "action") \/ Has(payload, "actions"))
                  THEN payload
                  ELSE IF body.delete /\ body.ids # <<>>
                  THEN [thought |-> IF body.thought # None THEN body.thought ELSE "",
                        actions |-> [islist |-> TRUE,
                                     items  |-> [i \in 1..Len(body.ids) |->
                                                    [action |-> "delete_todo",
                                                     action_input |-> [todo_id |-> body.ids[i]]]]],
                        final   |-> IF body.final # None THEN body.final ELSE ""]
                  ELSE NoParse

_parse_react_json(content) ==
    IF content.kind = "none" \/ content.body.t = "empty"
    THEN NoParse
    ELSE LET cleaned == StripFence(content)
             body    == cleaned.body
         IN  IF body.t # "braces"
             THEN NoParse
             ELSE LET payload == IF body.json.ok THEN body.json.value ELSE EmptyDict IN
                  IF payload # EmptyDict /\ (Has(payload, "action") \/ Has(payload, "actions"))
                  THEN payload
                  ELSE LET scanned == body.blocks
                           actions ==
                               IF scanned = <<>> /\ body.delete
                               THEN [i \in 1..Len(body.ids) |->
                                        [action |-> "delete_todo",
                                         action_input |-> [todo_id |-> body.ids[i]]]]
                               ELSE scanned
                       IN  IF actions = <<>>
                           THEN NoParse
                           ELSE [thought |-> IF body.thought # None THEN body.thought ELSE "",
                                 actions |-> [islist |-> TRUE, items |-> actions],
                                 final   |-> IF body.final # None THEN body.final ELSE ""]

(***************************************************************************)
(* TodoAgentWorkflow.process_message: the step loop, lines 265-353.        *)
(* L is the record of what the loop reads and writes: the identifier store *)
(* S, the provider P, the tables D, the scratchpad, the round trips made   *)
(* (sends) and the tools executed.  failAt is the round trip the provider  *)
(* fails, 0 for none; the reply to round trip k is the k-th of the script, *)
(* the last one repeated.                                                  *)
(***************************************************************************)
MaxSteps == 5

StepLimitMessage ==
    [kind |-> "str",
     value |-> "I couldn't complete the request within the allowed steps. Please try again."]

Str(text) == [kind |-> "str", value |-> text]

ReplyAt(script, k) == script[IF k <= Len(script) THEN k ELSE Len(script)]

\* lines 317-322
NormalizeActions(parsed) ==
    IF Has(parsed, "actions") /\ parsed["actions"].islist
    THEN parsed["actions"].items
    ELSE IF Get(parsed, "action") \notin {None, ""}
         THEN <<[action |-> parsed["action"],
                 action_input |-> IF GetD(parsed, "action_input") \in {JsonNull, EmptyDict}
                                  THEN EmptyDict
                                  ELSE parsed["action_input"]]>>
         ELSE <<>>

\* A call of progress_cb (lines 262-263, 324-325, 333-334, 341-344): nothing when
\* no callback was supplied; the calls are not inside a try block, so an
\* exception of the callback is an exception of process_message (L.exc), after
\* which nothing more of the invocation runs.  cb.failAt is the call at which the
\* callback raises, 0 for never.
Notify(L, note) ==
    IF ~L.cb.supplied \/ L.exc # ""
    THEN L
    ELSE [L EXCEPT
             !.events = Append(@, [kind |-> "note", note |-> note]),
             !.exc = IF Cardinality({k \in 1..Len(L.events) :
                                        L.events[k].kind = "note"}) + 1 = L.cb.failAt
                     THEN "CallbackError" ELSE ""]

MutatingTools == {"create_todo", "update_todo", "delete_todo", "mark_complete"}

\* line 329: act.get("action_input") or {}
ActionInput(act) ==
    IF GetD(act, "action_input") \in {JsonNull, EmptyDict}
    THEN EmptyDict
    ELSE act["action_input"]

\* lines 336-339: what the call r of _execute_tool leaves.
Executed(L, r, action) ==
    [L EXCEPT !.D = r.db,
              !.obs = Observation(r),
              !.executed = Append(@, [step |-> L.sends, action |-> action]),
              !.events = Append(@, [kind |-> "exec", action |-> action,
                                    observation |-> Observation(r)])]

Execute(L, user_id, action, action_input, t) ==
    IF L.exc # ""
    THEN L
    ELSE Executed(L, _execute_tool(L.D, user_id, action, action_input, t), action)

\* lines 341-344
Announce(L, action) ==
    IF action \in MutatingTools
    THEN Notify(Notify(L, [kind |-> "observation", observation |-> L.obs]),
                [kind |-> "calendar_updated"])
    ELSE Notify(L, [kind |-> "observation", observation |-> L.obs])

\* lines 346-351
Record(L, thought, action, action_input) ==
    IF L.exc # ""
    THEN L
    ELSE [L EXCEPT !.scratchpad =
                       Append(@, [thought |-> thought, action |-> action,
                                  action_input |-> action_input,
                                  observation |-> L.obs])]

\* lines 333-351 for one action
RunAction(L, user_id, action, action_input, thought, t) ==
    Record(Announce(Execute(Notify(L, [kind |-> "calling", action |-> action,
                                       action_input |-> action_input]),
                            user_id, action, action_input, t),
                    action),
           thought, action, ArgumentsLeft(L.D, user_id, action, action_input))

\* lines 327-351, from the i-th action on.
RECURSIVE RunActions(_, _, _, _, _, _)
RunActions(L, user_id, actions, i, thought, t) ==
    IF L.exc # "" \/ i > Len(actions)
    THEN L
    ELSE IF Get(actions[i], "action") \in {None, ""}
    THEN RunActions(L, user_id, actions, i + 1, thought, t)
    ELSE RunActions(RunAction(L, user_id, actions[i].action, ActionInput(actions[i]),
                              thought, t),
                    user_id, actions, i + 1, thought, t)

LoopEnd(L, outcome, result, exc) ==
    [L |-> L, outcome |-> outcome, result |-> result, exc |-> exc]

\* chat_raw (lines 298-305): start_session (ss is what it returned), then
\* add_message with the prompt of the step (lines 278-292), which carries the
\* system prompt when merge_prompt is set (lines 278-284) and none otherwise
\* (lines 285-291), the context built at lines 240-241 from the todos read at
\* the start, the serialized catalog and the scratchpad as it is then.
\* failAt is the round trip the provider fails, 0 for none.
Send(L, ss, step, failAt) ==
    IF ss.exc # ""
    THEN [L EXCEPT !.S = ss.S, !.P = ss.P, !.exc = ss.exc]
    ELSE [L EXCEPT !.S = ss.S,
                   !.P = [ss.P EXCEPT !.sent = @ + 1],
                   !.sends = @ + 1,
                   !.sentTo = Append(@, ss.ret),
                   !.events = Append(@, [kind |-> "send", step |-> step,
                                         system_prompt |->
                                             IF L.merge_prompt
                                             THEN DefaultSystemPrompt ELSE "",
                                         context |-> L.context,
                                         tools |-> tools,
                                         scratchpad |-> L.scratchpad]),
                   !.exc = IF failAt = step THEN "ProviderError" ELSE ""]

\* line 312: parsed.get("thought", "")
Thought(parsed) == IF Has(parsed, "thought") THEN parsed["thought"] ELSE ""

RECURSIVE RunLoop(_, _, _, _, _, _, _)

\* lines 307-351: the reply of the step, then the next step.
AfterSend(L, content, parsed, user_id, script, step, t, failAt, okT) ==
    IF L.exc # ""
    THEN LoopEnd(L, "raised", NoneObs, L.exc)
    ELSE IF parsed = NoParse
    THEN LoopEnd(L, "returned", content, "")
    ELSE IF Get(parsed, "action") = "final"
    THEN LoopEnd(L, "returned",
                 IF Get(parsed, "final") \notin {None, ""}
                 THEN Str(parsed["final"])
                 ELSE content,
                 "")
    ELSE RunLoop(RunActions(Notify(L, [kind |-> "step", step |-> step,
                                       thought |-> Thought(parsed)]),
                            user_id, NormalizeActions(parsed), 1, Thought(parsed),
                            t[step]),
                 user_id, script, step + 1, t, failAt, okT)

\* lines 265-353, from step `step` on; t[k] is the clock during step k.
RunLoop(L, user_id, script, step, t, failAt, okT) ==
    IF L.exc # ""
    THEN LoopEnd(L, "raised", NoneObs, L.exc)
    ELSE IF step > MaxSteps
    THEN LoopEnd(L, "returned", StepLimitMessage, "")
    ELSE AfterSend(Send(L, start_session(L.S, L.P, user_id, TtlNotSupplied, FALSE,
                                         t[step], TRUE, okT),
                        step, failAt),
                   ReplyAt(script, step), _parse_react_json(ReplyAt(script, step)),
                   user_id, script, step, t, failAt, okT)

(***************************************************************************)
(* The state machine.                                                      *)
(***************************************************************************)
Store == [a |-> assistants, t |-> threads]

NoStore == [a |-> [u \in Owners |-> NoId], t |-> [u \in Owners |-> NoThread]]

PmIdle ==
    [pc |-> "idle", n |-> 0, user |-> "u1", merge_prompt |-> TRUE,
     script |-> <<NoContent>>, hadAssistant |-> FALSE, refreshFailed |-> FALSE,
     cb |-> [supplied |-> FALSE, failAt |-> 0],
     thread |-> NoId, sends |-> 0, sentTo |-> <<>>, executed |-> <<>>,
     events |-> <<>>, scratchpad |-> <<>>, result |-> NoneObs, exc |-> ""]

NoCall == [op |-> "none"]

\* What a call of the session manager leaves in `last`: the call, what it returned
\* or raised (r), what the store held for the user before it, and the
\* create_assistant and create_thread round trips it made; for start_session
\* also the ttl_minutes it was called with.
SessionCall(op, u, force, r, P1) ==
    [op |-> op, user |-> u, force |-> force, ttl |-> TtlNotSupplied,
     ret |-> r.ret, exc |-> r.exc,
     before |-> threads[u], beforeA |-> assistants[u],
     createCalls |-> P1.createCalls[u] - prov.createCalls[u],
     threadCalls |-> P1.threadCalls - prov.threadCalls]

Init ==
    /\ now = 0
    /\ ticks = 0
    /\ assistants = [u \in Owners |-> NoId]
    /\ threads = [u \in Owners |-> NoThread]
    /\ prov = ProvInit
    /\ db = DbInit
    /\ createdFor = [i \in {} |-> "u1"]
    /\ pm = PmIdle
    /\ last = NoCall
    /\ workers = <<>>

Tick ==
    /\ ticks < MaxTicks
    /\ \E d \in Deltas : now' = now + d
    /\ ticks' = ticks + 1
    /\ last' = NoCall
    /\ UNCHANGED <<assistants, threads, prov, db, createdFor, pm, workers>>

\* upload_permanent_doc / remember: ensure_assistant(user_id) without keywords;
\* process_message: with tools and system_prompt.
EnsureAssistant ==
    \E u \in Owners, ok \in BOOLEAN, kw \in {NoKw, [system_prompt |-> "", tools |-> TRUE]} :
        LET r == ensure_assistant(Store, prov, u, kw, ok) IN
        /\ ProviderCalls(prov) < MaxProviderCalls
        /\ assistants' = r.S.a
        /\ threads' = r.S.t
        /\ prov' = r.P
        /\ last' = SessionCall("ensure_assistant", u, FALSE, r, r.P)
        /\ UNCHANGED <<now, ticks, db, createdFor, pm, workers>>

StartSession ==
    \E u \in Owners, ttl \in TtlArgs, force \in BOOLEAN, okA \in BOOLEAN, okT \in BOOLEAN :
        LET r == start_session(Store, prov, u, ttl, force, now, okA, okT) IN
        /\ ProviderCalls(prov) < MaxProviderCalls
        /\ assistants' = r.S.a
        /\ threads' = r.S.t
        /\ prov' = r.P
        /\ last' = [SessionCall("start_session", u, force, r, r.P) EXCEPT !.ttl = ttl]
        /\ UNCHANGED <<now, ticks, db, createdFor, pm, workers>>

GetSessionThreadId ==
    \E u \in Owners :
        LET r == get_session_thread_id(Store, u, now) IN
        /\ assistants' = r.S.a
        /\ threads' = r.S.t
        /\ last' = SessionCall("get_session_thread_id", u, FALSE,
                                [ret |-> r.ret, exc |-> ""], prov)
        /\ UNCHANGED <<now, ticks, prov, db, createdFor, pm, workers>>

EndSession ==
    \E u \in Owners, del \in BOOLEAN, okD \in BOOLEAN :
        LET r == end_session(Store, prov, u, del, now, okD) IN
        /\ assistants' = r.S.a
        /\ threads' = r.S.t
        /\ prov' = r.P
        /\ last' = SessionCall("end_session", u, FALSE, r, r.P)
                       @@ [delete_thread |-> del]
        /\ UNCHANGED <<now, ticks, db, createdFor, pm, workers>>

(***************************************************************************)
(* The session manager called on its own (chat_reset, the upload and       *)
(* thread endpoints of websocket_server.py).                               *)
(***************************************************************************)
SessionNext ==
    \/ Tick
    \/ EnsureAssistant
    \/ StartSession
    \/ GetSessionThreadId
    \/ EndSession

SessionSpec == Init /\ [][SessionNext]_vars

(***************************************************************************)
(* _execute_tool applied to the action a reply names, with the loop's      *)
(* conversion of an exception into an observation.                         *)
(***************************************************************************)
MaxTodos == 2

IdTexts ==
    {IdText(k, n) : k \in {"int", "dec"}, n \in 1..(MaxTodos + 1)}
        \cup {IdText("word", 0)}

WorkTag == [name |-> "work", color |-> "#3b82f6"]

CreateInputs ==
    {[title |-> "A"],
     [title |-> "B", date |-> "2024-01-02"],
     [title |-> "A", tags |-> <<WorkTag>>],
     [title |-> "B", tags |-> <<[name |-> "home"]>>],
     EmptyDict}

ToolCalls ==
    {[action |-> "create_todo", action_input |-> a] : a \in CreateInputs}
    \cup {[action |-> "update_todo",
           action_input |-> [todo_id |-> i, updates |-> [title |-> "Z"]]] : i \in IdTexts}
    \cup {[action |-> "update_todo",
           action_input |-> [todo_id |-> IdText("int", 1),
                             updates |-> [title |-> "Z", tags |-> <<WorkTag>>]]]}
    \cup {[action |-> a, action_input |-> [todo_id |-> i]] :
              a \in {"delete_todo", "mark_complete"}, i \in IdTexts}
    \cup {[action |-> a, action_input |-> EmptyDict] :
              a \in {"get_all_todos", "analyze_todos", "delete_todo", "noop"}}

ExecuteTool ==
    \E u \in Owners, c \in ToolCalls :
        LET r == _execute_tool(db, u, c.action, c.action_input, now) IN
        /\ c.action = "create_todo" => db.seq_todos < MaxTodos
        /\ db' = r.db
        /\ createdFor' =
               IF r.db.seq_todos > db.seq_todos
               THEN [i \in DOMAIN createdFor \cup {r.db.seq_todos} |->
                        IF i \in DOMAIN createdFor THEN createdFor[i] ELSE u]
               ELSE createdFor
        /\ last' = [op |-> "tool", user |-> u, action |-> c.action,
                    action_input |-> c.action_input,
                    left |-> ArgumentsLeft(db, u, c.action, c.action_input),
                    obs |-> Observation(r)]
        /\ UNCHANGED <<now, ticks, assistants, threads, prov, pm, workers>>

ToolNext == ExecuteTool

ToolSpec == Init /\ [][ToolNext]_vars

(***************************************************************************)
(* The task store called on its own, as populate_fake_data.py and the      *)
(* endpoints of api_server.py call it: create_todo, update_todo,           *)
(* delete_todo, mark_complete and get_all_todos of SQLiteDatabaseClient    *)
(* with the dicts a caller may pass.                                       *)
(***************************************************************************)
StoreTodos ==
    {[title |-> "A"],
     [title |-> ""],
     [title |-> "B", tags |-> <<WorkTag>>],
     EmptyDict}

StoreUpdates ==
    {[title |-> "Z"],
     [title |-> ""],
     [title |-> None],
     [created_at |-> 1000],
     [completed |-> TRUE, tags |-> <<WorkTag>>],
     [user_id |-> "u2"],
     EmptyDict}

\* What a call of the store leaves in `last`: the method and what it raised, ""
\* when it returned.
StoreCall(method, r) == [op |-> "store", method |-> method, exc |-> r.exc]

StoreCreateTodo ==
    \E u \in Owners, todo \in StoreTodos :
        LET arg == [k \in DOMAIN todo \cup {"user_id"} |->
                       IF k = "user_id" THEN u ELSE todo[k]]
            r   == create_todo(db, arg, now)
        IN  /\ db.seq_todos < MaxTodos
            /\ db' = r.db
            /\ createdFor' =
                   IF r.db.seq_todos > db.seq_todos
                   THEN [i \in DOMAIN createdFor \cup {r.db.seq_todos} |->
                            IF i \in DOMAIN createdFor THEN createdFor[i] ELSE u]
                   ELSE createdFor
            /\ last' = StoreCall("create_todo", r)
            /\ UNCHANGED <<now, ticks, assistants, threads, prov, pm, workers>>

StoreUpdateTodo ==
    \E n \in 1..(MaxTodos + 1), updates \in StoreUpdates :
        LET r == update_todo(db, IdText("int", n), updates) IN
        /\ db' = r.db
        /\ last' = [op |-> "store", method |-> "update_todo", exc |-> r.exc,
                    updates |-> updates, left |-> PopTags(updates)]
        /\ UNCHANGED <<now, ticks, assistants, threads, prov, createdFor, pm, workers>>

StoreDeleteTodo ==
    \E n \in 1..(MaxTodos + 1) :
        LET r == delete_todo(db, IdText("int", n)) IN
        /\ db' = r.db
        /\ last' = StoreCall("delete_todo", r)
        /\ UNCHANGED <<now, ticks, assistants, threads, prov, createdFor, pm, workers>>

StoreMarkComplete ==
    \E n \in 1..(MaxTodos + 1) :
        LET r == mark_complete(db, IdText("int", n)) IN
        /\ db' = r.db
        /\ last' = StoreCall("mark_complete", r)
        /\ UNCHANGED <<now, ticks, assistants, threads, prov, createdFor, pm, workers>>

StoreGetAllTodos ==
    LET r == get_all_todos(db, {}) IN
    /\ db' = r.db
    /\ last' = StoreCall("get_all_todos", r)
    /\ UNCHANGED <<now, ticks, assistants, threads, prov, createdFor, pm, workers>>

StoreNext ==
    \/ StoreCreateTodo
    \/ StoreUpdateTodo
    \/ StoreDeleteTodo
    \/ StoreMarkComplete
    \/ StoreGetAllTodos

StoreSpec == Init /\ [][StoreNext]_vars

(***************************************************************************)
(* _parse_react_json applied to the content of a reply.  The texts are the *)
(* combinations of what the parser's searches can find in one text: text   *)
(* before or after the {...} span may hold delete_todo and "todo_id":".."  *)
(* pairs, the action blocks lie inside the span (it reaches from the first *)
(* { to the last }), so a span that json.loads accepts has the blocks of   *)
(* its object.                                                             *)
(***************************************************************************)
Fences == {"none", "bare", "json"}

IdLists == {<<>>, <<"1">>, <<"2", "1">>}

CreateA == [action |-> "create_todo", action_input |-> [title |-> "A"]]
CreateB == [action |-> "create_todo", action_input |-> [title |-> "B"]]

\* The objects json.loads may return for the span, each with the action blocks
\* the permissive scan finds in its text.
ParsedSpans ==
    {[value  |-> [thought |-> "t", action |-> "create_todo",
                  action_input |-> [title |-> "A"], final |-> ""],
      blocks |-> <<CreateA>>],
     [value  |-> [thought |-> "x", action |-> "final",
                  action_input |-> JsonNull, final |-> "done"],
      blocks |-> <<>>],
     [value  |-> [thought |-> "t",
                  actions |-> [islist |-> TRUE, items |-> <<CreateA, CreateB>>],
                  final   |-> ""],
      blocks |-> <<CreateA, CreateB>>],
     [value  |-> [thought |-> "t", steps |-> <<CreateA>>],
      blocks |-> <<CreateA>>],
     [value  |-> [tool |-> "noop"],
      blocks |-> <<>>],
     [value  |-> EmptyDict,
      blocks |-> <<>>]}

\* The action blocks of a span that json.loads rejects.
BlockLists == {<<>>, <<CreateA>>, <<CreateA, CreateB>>}

ParseInputs ==
    {NoContent, EmptyText}
        \cup {[FreeText("text", d, ids) EXCEPT !.fence = f] :
                  f \in Fences, d \in BOOLEAN, ids \in IdLists}
        \cup {[kind |-> "str", fence |-> f,
               body |-> [t |-> "braces", json |-> [ok |-> TRUE, value |-> p.value],
                         blocks |-> p.blocks, delete |-> d, ids |-> ids,
                         thought |-> Get(p.value, "thought"),
                         final |-> Get(p.value, "final")]] :
                  f \in Fences, p \in ParsedSpans, d \in BOOLEAN, ids \in IdLists}
        \cup {[BrokenText(b, d, ids) EXCEPT !.fence = f] :
                  f \in Fences, b \in BlockLists, d \in BOOLEAN, ids \in IdLists}

ParseReply ==
    \E content \in ParseInputs :
        /\ last' = [op |-> "parse", content |-> content,
                    parsed |-> _parse_react_json(content)]
        /\ UNCHANGED <<now, ticks, assistants, threads, prov, db, createdFor, pm, workers>>

ParseSpec == Init /\ [][ParseReply]_vars

(***************************************************************************)
(* The REST endpoints of api_server.py.  Each request opens a connection   *)
(* of its own and closes it when the request ends (close_db), so what a    *)
(* request wrote before an uncaught exception is rolled back; Flask        *)
(* answers an uncaught exception with status 500.  header is the value of  *)
(* X-User-ID, None when the header is missing.                             *)
(***************************************************************************)
DefaultColor == "#3b82f6"
TagNames == {"work", "home"}
TagColors == {DefaultColor, "#ef4444"}

ApiReply(D, status, ret, exc) == [db |-> D, status |-> status, ret |-> ret, exc |-> exc]

\* What a request leaves behind: the tables after a normal return, the tables
\* before the request after an exception.
ApiDone(D, r, status) ==
    IF r.exc # ""
    THEN ApiReply(D, 500, NoneObs, r.exc)
    ELSE ApiReply(r.db, status, r.ret, "")

\* lines 50-58
convert_task_to_todo(task, user_id) ==
    [user_id     |-> user_id,
     title       |-> task.title,
     description |-> IF Has(task, "description") THEN task.description ELSE "",
     date        |-> IF Has(task, "date") THEN task.date ELSE "",
     tags        |-> IF Has(task, "tags") THEN task.tags ELSE <<>>]

\* POST /api/tasks, lines 74-87
api_create_task(D, header, data, t) ==
    IF header = None
    THEN ApiReply(D, 401, NoneObs, "")
    ELSE IF ~Has(data, "title")
    THEN ApiReply(D, 500, NoneObs, "KeyError: 'title'")
    ELSE ApiDone(D, create_todo(D, convert_task_to_todo(data, header), t), 201)

\* PUT /api/tasks/<task_id>, lines 89-120
api_update_task(D, header, task_id, data) ==
    IF header = None
    THEN ApiReply(D, 401, NoneObs, "")
    ELSE LET g == get_todo(D, task_id) IN
         IF g.exc # ""
         THEN ApiReply(D, 500, NoneObs, g.exc)
         ELSE IF g.ret = NoneObs
         THEN ApiReply(D, 404, NoneObs, "")
         ELSE IF TodoGet(g.ret, "user_id") # header
         THEN ApiReply(D, 403, NoneObs, "")
         ELSE LET updates ==
                      [title       |-> Get(data, "title"),
                       description |-> IF Has(data, "description")
                                       THEN data.description ELSE "",
                       completed   |-> IF Has(data, "completed")
                                       THEN data.completed ELSE FALSE,
                       date        |-> IF Has(data, "date") THEN data.date ELSE "",
                       tags        |-> IF Has(data, "tags") THEN data.tags ELSE <<>>]
                  r == update_todo(g.db, task_id, updates)
              IN  IF r.exc = "" /\ r.ret = NoneObs
                  THEN ApiReply(r.db, 500, NoneObs, "")
                  ELSE ApiDone(D, r, 200)

\* POST /api/tags, lines 183-197
api_create_tag(D, header, data) ==
    IF header = None
    THEN ApiReply(D, 401, NoneObs, "")
    ELSE IF ~Has(data, "name")
    THEN ApiReply(D, 500, NoneObs, "KeyError: 'name'")
    ELSE LET tag_data == [name  |-> data.name,
                          color |-> IF Has(data, "color") THEN data.color
                                    ELSE DefaultColor]
         IN  ApiDone(D, create_tag(D, tag_data), 201)

Headers == Owners \cup {None}

TagInputs ==
    {[name |-> n, color |-> c] : n \in TagNames, c \in TagColors}
        \cup {[name |-> n] : n \in TagNames}

TaskInputs ==
    {[title |-> "A"], [description |-> "no title"]}
        \cup {[title |-> "B", tags |-> <<tg>>] :
                  tg \in {tg \in TagInputs : tg.name = "work"}}
        \cup {[title |-> "C", tags |-> <<[name |-> "work", color |-> DefaultColor],
                                         [name |-> "home", color |-> "#ef4444"]>>]}

\* What a request leaves in `last`: the request, the answer and the tags the
\* store held before it.
ApiCall(op, header, data, r) ==
    [op |-> op, user |-> header, data |-> data, status |-> r.status,
     ret |-> r.ret, exc |-> r.exc, tagsBefore |-> db.tags]

ApiCreateTask ==
    \E h \in Headers, data \in TaskInputs :
        LET r == api_create_task(db, h, data, now) IN
        /\ db.seq_todos < MaxTodos
        /\ db' = r.db
        /\ createdFor' =
               IF r.db.seq_todos > db.seq_todos
               THEN [i \in DOMAIN createdFor \cup {r.db.seq_todos} |->
                        IF i \in DOMAIN createdFor THEN createdFor[i] ELSE h]
               ELSE createdFor
        /\ last' = ApiCall("api_create_task", h, data, r)
        /\ UNCHANGED <<now, ticks, assistants, threads, prov, pm, workers>>

ApiUpdateTask ==
    \E h \in Headers, i \in IdTexts :
        LET data == [title |-> "Z", tags |-> <<WorkTag>>]
            r    == api_update_task(db, h, i, data)
        IN  /\ db' = r.db
            /\ last' = ApiCall("api_update_task", h, [task_id |-> i, body |-> data], r)
            /\ UNCHANGED <<now, ticks, assistants, threads, prov, createdFor, pm, workers>>

ApiCreateTag ==
    \E h \in Headers, data \in TagInputs \cup {EmptyDict} :
        LET r == api_create_tag(db, h, data) IN
        /\ db' = r.db
        /\ last' = ApiCall("api_create_tag", h, data, r)
        /\ UNCHANGED <<now, ticks, assistants, threads, prov, createdFor, pm, workers>>

ApiNext ==
    \/ ApiCreateTask
    \/ ApiUpdateTask
    \/ ApiCreateTag

ApiSpec == Init /\ [][ApiNext]_vars

(***************************************************************************)
(* process_message, called by handle_message (websocket_server.py) and     *)
(* run_workflow.  The provider answers from a script; the setup awaits     *)
(* (ensure_assistant, start_session) are steps of their own.               *)
(***************************************************************************)
MaxInvocations == 2

MilkInput == [title |-> "Buy milk", date |-> "2024-01-02"]
MilkAnswer == "Added: Buy milk on 2024-01-02"

CreateReply(thought, input) ==
    JsonText("none", [thought |-> thought, action |-> "create_todo",
                      action_input |-> input, final |-> ""])

FinalReply(fence, thought, text) ==
    JsonText(fence, [thought |-> thought, action |-> "final",
                     action_input |-> JsonNull, final |-> text])

PluralReply ==
    JsonText("none",
             [thought |-> "t",
              actions |-> [islist |-> TRUE,
                           items  |-> <<[action |-> "create_todo",
                                         action_input |-> [title |-> "A"]],
                                        [action |-> "create_todo",
                                         action_input |-> [title |-> "B"]]>>],
              final   |-> ""])

\* One reply with four actions: an unknown tool, a delete_todo without its
\* todo_id, a create_todo and a get_all_todos.
MixedReply ==
    JsonText("none",
             [thought |-> "t",
              actions |-> [islist |-> TRUE,
                           items  |-> <<[action |-> "noop", action_input |-> EmptyDict],
                                        [action |-> "delete_todo",
                                         action_input |-> EmptyDict],
                                        [action |-> "create_todo",
                                         action_input |-> [title |-> "B"]],
                                        [action |-> "get_all_todos",
                                         action_input |-> EmptyDict]>>],
              final   |-> ""])

\* A plural reply holding an entry {action: final} and a create_todo, with a
\* final text of its own; then a plural reply with no action; then a final.
PluralFinalEntry ==
    <<JsonText("none",
               [thought |-> "t",
                actions |-> [islist |-> TRUE,
                             items  |-> <<[action |-> "final"],
                                          [action |-> "create_todo",
                                           action_input |-> [title |-> "P"]]>>],
                final   |-> "bye"]),
      JsonText("none",
               [thought |-> "t",
                actions |-> [islist |-> TRUE, items |-> <<>>],
                final   |-> "bye"]),
      FinalReply("none", "done", "ok")>>

MixedThenFinal  == <<MixedReply, FinalReply("none", "done", "ok")>>
AlwaysCreates   == <<CreateReply("more", [title |-> "A"])>>
PluralThenFinal == <<PluralReply, FinalReply("none", "done", "ok")>>
MilkThenFinal   == <<CreateReply("create it", MilkInput),
                     FinalReply("none", "done", MilkAnswer)>>
FinalDone       == <<FinalReply("none", "x", "done")>>
FinalEmpty      == <<FinalReply("none", "x", "")>>
FencedBare      == <<FinalReply("bare", "x", "done")>>
FencedJson      == <<FinalReply("json", "x", "done")>>
FreeTextOnly    == <<FreeText("I cannot do that", FALSE, <<>>)>>
Unparseable     == <<BrokenText(<<>>, FALSE, <<>>)>>
MissingContent  == <<NoContent>>
EmptyContent    == <<EmptyText>>

Scripts ==
    {AlwaysCreates, PluralThenFinal, PluralFinalEntry, MilkThenFinal, MixedThenFinal,
     FinalDone, FinalEmpty,
     FencedBare, FencedJson, FreeTextOnly, Unparseable, MissingContent,
     EmptyContent}

\* The progress_cb of an invocation: none, one that returns, one that raises at
\* its first call and one that raises at its third.
Callbacks ==
    {[supplied |-> FALSE, failAt |-> 0], [supplied |-> TRUE, failAt |-> 0],
     [supplied |-> TRUE, failAt |-> 1], [supplied |-> TRUE, failAt |-> 3]}

PM_Begin ==
    /\ pm.pc \in {"idle", "returned", "raised"}
    /\ pm.n < MaxInvocations
    /\ \E u \in Owners, m \in BOOLEAN, sc \in Scripts, cb \in Callbacks :
           pm' = [pc |-> "ensure", n |-> pm.n + 1, user |-> u, merge_prompt |-> m,
                  script |-> sc, hadAssistant |-> assistants[u] # NoId,
                  refreshFailed |-> FALSE, cb |-> cb, thread |-> NoId,
                  sends |-> 0, sentTo |-> <<>>,
                  executed |-> <<>>, events |-> <<>>, scratchpad |-> <<>>,
                  result |-> NoneObs, exc |-> ""]
    /\ UNCHANGED <<now, ticks, assistants, threads, prov, db, createdFor, last, workers>>

\* lines 231-236
PM_EnsureAssistant ==
    /\ pm.pc = "ensure"
    /\ \E ok \in BOOLEAN :
           LET kw == IF pm.merge_prompt
                     THEN [system_prompt |-> "", tools |-> TRUE]
                     ELSE [system_prompt |-> "None", tools |-> TRUE]
               r  == ensure_assistant(Store, prov, pm.user, kw, ok)
           IN  /\ assistants' = r.S.a
               /\ threads' = r.S.t
               /\ prov' = r.P
               /\ pm' = IF r.exc # ""
                        THEN [pm EXCEPT !.pc = "raised", !.exc = r.exc]
                        ELSE [pm EXCEPT !.pc = "session", !.refreshFailed = r.swallowed]
    /\ UNCHANGED <<now, ticks, db, createdFor, last, workers>>

\* line 237
PM_StartSession ==
    /\ pm.pc = "session"
    /\ \E okT \in BOOLEAN :
           LET r == start_session(Store, prov, pm.user, TtlNotSupplied, FALSE, now, TRUE, okT) IN
           /\ assistants' = r.S.a
           /\ threads' = r.S.t
           /\ prov' = r.P
           /\ pm' = IF r.exc # ""
                    THEN [pm EXCEPT !.pc = "raised", !.exc = r.exc]
                    ELSE [pm EXCEPT !.pc = "context", !.thread = r.ret]
    /\ UNCHANGED <<now, ticks, db, createdFor, last, workers>>

\* lines 239-353: the snapshot of the owner's todos, the documents of the thread
\* (any failure there is swallowed) and the step loop.
PM_Context ==
    /\ pm.pc = "context"
    /\ LET r == get_all_todos(db, {"user_id"}) IN
       IF r.exc # ""
       THEN /\ pm' = [pm EXCEPT !.pc = "raised", !.exc = r.exc]
            /\ UNCHANGED <<now, ticks, assistants, threads, prov, db, createdFor>>
       ELSE \E failAt \in 0..MaxSteps, okDocs \in BOOLEAN, okT \in BOOLEAN,
               late \in 0..MaxSteps, d \in Deltas :
                \* the clock moves on by d before step `late` (0: not at all)
                LET clock == [k \in 1..MaxSteps |->
                                 IF late \in 1..k THEN now + d ELSE now]
                    ss == start_session(Store, prov, pm.user, TtlNotSupplied,
                                        FALSE, now, TRUE, okDocs)
                    L0 == [S |-> ss.S, P |-> ss.P, D |-> r.db, scratchpad |-> <<>>,
                           sends |-> 0, sentTo |-> <<>>, executed |-> <<>>,
                           events |-> <<>>, obs |-> NoneObs, cb |-> pm.cb,
                           merge_prompt |-> pm.merge_prompt, context |-> r.ret,
                           exc |-> ""]
                    e  == RunLoop(Notify(L0, [kind |-> "thinking"]),
                                  pm.user, pm.script, 1, clock, failAt, okT)
                IN  /\ late # 0 => ticks < MaxTicks
                    /\ now' = clock[MaxSteps]
                    /\ ticks' = IF late # 0 THEN ticks + 1 ELSE ticks
                    /\ assistants' = e.L.S.a
                    /\ threads' = e.L.S.t
                    /\ prov' = e.L.P
                    /\ db' = e.L.D
                    /\ createdFor' = [i \in 1..e.L.D.seq_todos |->
                                         IF i \in DOMAIN createdFor
                                         THEN createdFor[i] ELSE pm.user]
                    /\ pm' = [pm EXCEPT !.pc = e.outcome, !.result = e.result,
                                        !.exc = e.exc, !.sends = e.L.sends,
                                        !.sentTo = e.L.sentTo,
                                        !.executed = e.L.executed,
                                        !.events = e.L.events,
                                        !.scratchpad = e.L.scratchpad]
    /\ UNCHANGED <<last, workers>>

Next ==
    \/ Tick
    \/ PM_Begin
    \/ PM_EnsureAssistant
    \/ PM_StartSession
    \/ PM_Context

Spec == Init /\ [][Next]_vars

(***************************************************************************)
(* handle_message (websocket_server.py:499-627).  Every accepted message   *)
(* starts a daemon thread of its own (lines 624-627) and returns; the      *)
(* thread builds its own workflow and connection (get_workflow, thread     *)
(* local) and runs process_and_respond.  A worker is one such thread: its  *)
(* owner, its position and what it emitted at its end.  The threads        *)
(* interleave at the calls of the session manager and of the store.        *)
(***************************************************************************)
MaxWorkers == 2

\* `read` and `seen`: the worker has read the store for the call it is in and
\* waits for the provider; aid and tid: what ensure_assistant and start_session
\* returned to it last.
Worker(u, sc) ==
    [user |-> u, pc |-> "preflight", script |-> sc, merge_prompt |-> TRUE, out |-> "none",
     read |-> FALSE, seen |-> NoStore, aid |-> NoId, tid |-> NoId]

WorkerScripts == {FinalDone, MilkThenFinal}

\* What list_thread_documents finds before the message is processed (lines
\* 532-572): a failure, a document still indexing, no document for a message
\* that asks about one, or nothing that stops the message.
DocStates == {"fail", "pending", "missing", "ready"}

\* lines 502-513, 624-627
HandleMessage ==
    \E u \in Headers, hasText \in BOOLEAN :
        /\ Len(workers) < MaxWorkers
        /\ IF u = None \/ ~hasText
           THEN /\ last' = [op |-> "handle_message", user |-> u, emitted |-> "error"]
                /\ UNCHANGED workers
           ELSE /\ \E sc \in WorkerScripts : workers' = Append(workers, Worker(u, sc))
                /\ last' = [op |-> "handle_message", user |-> u, emitted |-> "none"]
        /\ UNCHANGED <<now, ticks, assistants, threads, prov, db, createdFor, pm>>

\* backboard_client.py:134 and 198-199: ensure_assistant and start_session read
\* the store, and then await the provider; the threads of other messages run
\* in between.
W_Read(w) ==
    /\ workers[w].pc \in {"preflight", "ensure", "session"}
    /\ ~workers[w].read
    /\ workers' = [workers EXCEPT ![w] = [@ EXCEPT !.read = TRUE, !.seen = Store]]
    /\ UNCHANGED <<now, ticks, assistants, threads, prov, db, createdFor, pm, last>>

\* backboard_client.py:167 and 209: what a call that read the store as `seen`
\* and left it as `res` has written, on the store as it is when it writes.
WrittenOnto(seen, res) ==
    [a |-> [u \in Owners |-> IF res.a[u] # seen.a[u] THEN res.a[u] ELSE assistants[u]],
     t |-> [u \in Owners |-> IF res.t[u] # seen.t[u] THEN res.t[u] ELSE threads[u]]]

\* lines 529-572: get_thread_id (start_session), list_thread_documents
W_Preflight(w) ==
    /\ workers[w].pc = "preflight"
    /\ workers[w].read
    /\ \E okA \in BOOLEAN, okT \in BOOLEAN, docs \in DocStates :
           LET r == start_session(workers[w].seen, prov, workers[w].user, TtlNotSupplied,
                                  FALSE, now, okA, okT)
           IN  /\ assistants' = WrittenOnto(workers[w].seen, r.S).a
               /\ threads' = WrittenOnto(workers[w].seen, r.S).t
               /\ prov' = r.P
               /\ workers' =
                      [workers EXCEPT ![w] =
                          IF r.exc # "" \/ docs = "fail"
                          THEN [@ EXCEPT !.pc = "done", !.out = "error",
                                         !.read = FALSE, !.seen = NoStore]
                          ELSE IF docs \in {"pending", "missing"}
                          THEN [@ EXCEPT !.pc = "done", !.out = "message",
                                         !.read = FALSE, !.seen = NoStore,
                                         !.tid = r.ret]
                          ELSE [@ EXCEPT !.pc = "ensure",
                                         !.read = FALSE, !.seen = NoStore,
                                         !.tid = r.ret]]
    /\ UNCHANGED <<now, ticks, db, createdFor, pm, last>>

\* workflow.py:231-236, in the thread of the worker
W_EnsureAssistant(w) ==
    /\ workers[w].pc = "ensure"
    /\ workers[w].read
    /\ \E ok \in BOOLEAN, merge_prompt \in BOOLEAN :
           LET kw == IF merge_prompt
                     THEN [system_prompt |-> "", tools |-> TRUE]
                     ELSE [system_prompt |-> "None", tools |-> TRUE]
               r  == ensure_assistant(workers[w].seen, prov, workers[w].user, kw, ok)
           IN  /\ assistants' = WrittenOnto(workers[w].seen, r.S).a
               /\ threads' = WrittenOnto(workers[w].seen, r.S).t
               /\ prov' = r.P
               /\ workers' =
                      [workers EXCEPT ![w] =
                          IF r.exc # ""
                          THEN [@ EXCEPT !.pc = "done", !.out = "error",
                                         !.read = FALSE, !.seen = NoStore]
                          ELSE [@ EXCEPT !.pc = "session",
                                         !.merge_prompt = merge_prompt,
                                         !.read = FALSE, !.seen = NoStore,
                                         !.aid = r.ret]]
    /\ UNCHANGED <<now, ticks, db, createdFor, pm, last>>

\* workflow.py:237
W_StartSession(w) ==
    /\ workers[w].pc = "session"
    /\ workers[w].read
    /\ \E okT \in BOOLEAN :
           LET r == start_session(workers[w].seen, prov, workers[w].user, TtlNotSupplied,
                                  FALSE, now, TRUE, okT)
           IN  /\ assistants' = WrittenOnto(workers[w].seen, r.S).a
               /\ threads' = WrittenOnto(workers[w].seen, r.S).t
               /\ prov' = r.P
               /\ workers' =
                      [workers EXCEPT ![w] =
                          IF r.exc # ""
                          THEN [@ EXCEPT !.pc = "done", !.out = "error",
                                         !.read = FALSE, !.seen = NoStore]
                          ELSE [@ EXCEPT !.pc = "context",
                                         !.read = FALSE, !.seen = NoStore,
                                         !.tid = r.ret]]
    /\ UNCHANGED <<now, ticks, db, createdFor, pm, last>>

\* workflow.py:239-353, then websocket_server.py:602-622: the answer is emitted
\* as a message, an exception as an error.
W_Context(w) ==
    /\ workers[w].pc = "context"
    /\ LET r == get_all_todos(db, {"user_id"}) IN
       IF r.exc # ""
       THEN /\ workers' = [workers EXCEPT ![w] = [@ EXCEPT !.pc = "done", !.out = "error"]]
            /\ UNCHANGED <<assistants, threads, prov, db, createdFor>>
       ELSE \E failAt \in 0..MaxSteps, okDocs \in BOOLEAN, okT \in BOOLEAN :
                LET u  == workers[w].user
                    ss == start_session(Store, prov, u, TtlNotSupplied,
                                        FALSE, now, TRUE, okDocs)
                    L0 == [S |-> ss.S, P |-> ss.P, D |-> r.db, scratchpad |-> <<>>,
                           sends |-> 0, sentTo |-> <<>>, executed |-> <<>>,
                           events |-> <<>>, obs |-> NoneObs,
                           cb |-> [supplied |-> TRUE, failAt |-> 0],
                           merge_prompt |-> workers[w].merge_prompt,
                           context |-> r.ret, exc |-> ""]
                    e  == RunLoop(Notify(L0, [kind |-> "thinking"]),
                                  u, workers[w].script, 1,
                                  [k \in 1..MaxSteps |-> now], failAt, okT)
                IN  /\ assistants' = e.L.S.a
                    /\ threads' = e.L.S.t
                    /\ prov' = e.L.P
                    /\ db' = e.L.D
                    /\ createdFor' = [i \in 1..e.L.D.seq_todos |->
                                         IF i \in DOMAIN createdFor
                                         THEN createdFor[i] ELSE u]
                    /\ workers' = [workers EXCEPT ![w] =
                                      [@ EXCEPT !.pc = "done",
                                                !.out = IF e.outcome = "returned"
                                                        THEN "message" ELSE "error"]]
    /\ UNCHANGED <<now, ticks, pm, last>>

WorkerStep ==
    \E w \in 1..Len(workers) :
        \/ W_Read(w)
        \/ W_Preflight(w)
        \/ W_EnsureAssistant(w)
        \/ W_StartSession(w)
        \/ W_Context(w)

HandlerNext ==
    \/ HandleMessage
    \/ WorkerStep

HandlerSpec == Init /\ [][HandlerNext]_vars

(***************************************************************************)
(*                              Properties                                 *)
(***************************************************************************)
\* An invocation has ended and no provider round trip of it failed.
PmOver == pm.pc \in {"returned", "raised"} /\ pm.exc # "ProviderError"

\* An invocation has ended, no provider round trip of it failed and its callback,
\* if it has one, is one that returns.
PmEnded == PmOver /\ pm.cb.failAt = 0

\* C1: with a provider whose every reply is a non-final action, process_message
\* ends after exactly 5 round trips with the step-limit message.
C1_StepBudget ==
    (PmEnded /\ pm.script = AlwaysCreates)
        => /\ pm.pc = "returned"
           /\ pm.sends = 5
           /\ pm.result = StepLimitMessage

\* The rows an update_todo, delete_todo or mark_complete with this todo_id
\* addresses.
Named(tid) == {r \in db.todos : SqlIdMatch(r.id, tid)}

\* C2: update_todo, delete_todo or mark_complete executed for an owner with a
\* todo_id that names another owner's task, or no task, is answered with
\* {error: "unauthorized_or_not_found"}.
C2_ForeignOrAbsentIsUnauthorized ==
    (/\ last.op = "tool"
     /\ last.action \in {"update_todo", "delete_todo", "mark_complete"}
     /\ Has(last.action_input, "todo_id")
     /\ \A r \in Named(last.action_input["todo_id"]) : createdFor[r.id] # last.user)
        => last.obs = Unauthorized

\* C3: a reply with the plural list of two create_todo actions (A, B) has both
\* tasks created, A before B, in the step of that reply.
C3_PluralBothCreated ==
    (PmEnded /\ pm.script = PluralThenFinal)
        => /\ \E a, b \in db.todos :
                  a.title = "A" /\ b.title = "B" /\ a.id < b.id
           /\ Len(pm.executed) = 2
           /\ \A i \in 1..2 : pm.executed[i] = [step |-> 1, action |-> "create_todo"]

\* C4: for u1 without tasks, create_todo "Buy milk" on 2024-01-02 and then final:
\* two round trips, exactly one task, with that title and date, and the final text
\* returned.
C4_BuyMilk ==
    (PmEnded /\ pm.n = 1 /\ pm.user = "u1" /\ pm.script = MilkThenFinal)
        => /\ pm.pc = "returned"
           /\ pm.sends = 2
           /\ \E r \in db.todos :
                  /\ db.todos = {r}
                  /\ r.title = "Buy milk"
                  /\ r.date = "2024-01-02"
                  /\ createdFor[r.id] = "u1"
           /\ pm.result = Str(MilkAnswer)

\* C5: a reply whose action is final ends the invocation with its final field, or
\* with the raw content when that field is empty, after one round trip and without
\* a tool execution.
C5_FinalReturnsFinalField ==
    (PmEnded /\ pm.script \in {FinalDone, FinalEmpty})
        => /\ pm.pc = "returned"
           /\ pm.result = IF pm.script = FinalDone THEN Str("done") ELSE FinalEmpty[1]
           /\ pm.sends = 1
           /\ pm.executed = <<>>

\* C6: the final reply inside a ``` or ```json fence is parsed and "done" returned.
C6_FencedFinalReturnsDone ==
    (PmEnded /\ pm.script \in {FencedBare, FencedJson})
        => pm.pc = "returned" /\ pm.result = Str("done")

\* C7: a reply from which no action is recovered (free text, unparseable JSON,
\* empty or missing content) is returned verbatim, and nothing is raised.
C7_MalformedReturnedVerbatim ==
    (PmEnded /\ pm.script \in {FreeTextOnly, Unparseable, MissingContent, EmptyContent})
        => pm.pc = "returned" /\ pm.result = pm.script[1]

\* C8: start_session without force_new on a stored session with expiry t returns
\* the stored identity before t; from t on it asks the provider for a thread and,
\* when the provider answers, returns the new identity and stores it with a later
\* expiry.  No reader returns a stored identity from its expiry on.
C8_SessionExpiry ==
    /\ (last.op = "start_session" /\ ~last.force /\ last.before.thread_id # NoId)
           => IF now < last.before.expires_at
              THEN /\ last.exc = ""
                   /\ last.ret = last.before.thread_id
                   /\ last.threadCalls = 0
              ELSE /\ last.threadCalls = 1
                   /\ last.exc = ""
                          => /\ last.ret \notin {NoId, last.before.thread_id}
                             /\ threads[last.user].thread_id = last.ret
                             /\ threads[last.user].expires_at > last.before.expires_at
    /\ (/\ last.op \in {"start_session", "get_session_thread_id"}
        /\ last.exc = ""
        /\ last.ret # NoId
        /\ last.ret = last.before.thread_id)
           => now < last.before.expires_at

C8_Witness ==
    /\ last.op = "start_session"
    /\ ~last.force
    /\ last.before.thread_id # NoId
    /\ now = last.before.expires_at
    /\ last.exc = ""
    /\ last.ret # last.before.thread_id
    /\ threads[last.user].thread_id = last.ret

\* C9: once an assistant identity is stored for an owner, ensure_assistant returns
\* it, makes no create_assistant call and leaves the stored identity as it is.
C9_EnsureAssistantIdempotent ==
    (last.op = "ensure_assistant" /\ last.beforeA # NoId)
        => /\ last.exc = ""
           /\ last.ret = last.beforeA
           /\ last.createCalls = 0
           /\ assistants[last.user] = last.beforeA

C9_Witness ==
    /\ last.op = "ensure_assistant"
    /\ last.beforeA # NoId
    /\ last.ret = last.beforeA
    /\ prov.createCalls[last.user] = 1

\* C10: when the assistant exists and the update_assistant refresh fails,
\* ensure_assistant returns without raising and process_message goes on to the
\* step loop (its first round trip).
C10_RefreshFailureReachesLoop ==
    (PmEnded /\ pm.hadAssistant /\ pm.refreshFailed) => pm.sends >= 1

\* C11: after end_session, whether delete_thread succeeded or failed, the owner
\* has no local session record, and a start_session that follows it for that
\* owner asks the provider for a thread and, when it returns, returns a thread
\* identity that was never issued before.
C11_EndSessionClearsRecord ==
    /\ [](last.op = "end_session" => threads[last.user] = NoThread)
    /\ [][(/\ last.op = "end_session"
            /\ last'.op = "start_session"
            /\ last'.user = last.user
            /\ last'.exc = "")
               => /\ last'.threadCalls = 1
                  /\ last'.ret = prov'.threadsIssued
                  /\ last'.ret > prov.threadsIssued
                  /\ threads'[last.user].thread_id = last'.ret]_vars

C11_Witness ==
    /\ last.op = "end_session"
    /\ last.before.thread_id # NoId
    /\ now < last.before.expires_at
    /\ last.exc = "ProviderError"
    /\ threads[last.user] = NoThread

\* C12: end_session returns normally to its caller also when delete_thread
\* fails.
C12_DeleteFailureSwallowed ==
    last.op = "end_session" => last.exc = ""

\* C16: a tag creation with a name the store already holds returns the identity
\* of the tag first created with that name, whatever the color, and the store
\* never holds two tags of one name; for POST /api/tags as for the tags that
\* create_todo creates on the way.
C16_TagNameReused ==
    /\ \A a, b \in db.tags : a.name = b.name => a = b
    /\ (/\ last.op = "api_create_tag"
        /\ last.user # None
        /\ Has(last.data, "name")
        /\ \E tg \in last.tagsBefore : tg.name = last.data.name)
           => /\ last.status = 201
              /\ \E tg \in last.tagsBefore :
                     tg.name = last.data.name /\ last.ret.id = tg.id
    /\ (/\ last.op = "api_create_task"
        /\ last.status = 201)
           => \A tg \in last.ret.tags :
                  \A old \in last.tagsBefore : old.name = tg.name => old = tg

\* C17: an invocation of process_message ends by returning (a final text, the raw
\* reply or the step-limit message) or by raising the failure of a provider call;
\* no other exception reaches the caller.
C17_OnlyProviderFailuresEscape ==
    /\ pm.pc = "raised" => pm.exc = "ProviderError"
    /\ pm.pc = "returned" => pm.exc = ""

\* The indices of the events of one kind in the log of the invocation.
EventsOf(kind) == {k \in 1..Len(pm.events) : pm.events[k].kind = kind}

\* The actions executed before the k-th event, in execution order.
ExecBefore(k) == SelectSeq(SubSeq(pm.events, 1, k - 1), LAMBDA e : e.kind = "exec")

\* C13: when the actions of one reply are an unknown tool, a delete_todo without
\* todo_id, a create_todo and a get_all_todos, the first two leave {error: ...}
\* observations in the scratchpad, the create_todo that follows them is still
\* executed, and the loop goes on to its next round trip.
C13_ActionErrorsBecomeObservations ==
    (PmEnded /\ pm.script = MixedThenFinal)
        => /\ pm.pc = "returned"
           /\ pm.sends = 2
           /\ Len(pm.scratchpad) = 4
           /\ pm.scratchpad[1].observation = ErrorObs("ValueError: Unknown tool")
           /\ pm.scratchpad[2].observation = ErrorObs("KeyError: 'todo_id'")
           /\ pm.scratchpad[3].action = "create_todo"
           /\ pm.scratchpad[3].observation.kind = "todo"
           /\ \E r \in db.todos : r.title = "B"

\* C14: with a progress callback that raises, the invocation that is answered
\* create_todo "Buy milk" and then final still creates the task and still returns
\* the final text.
C14_CallbackFailureDoesNotAbort ==
    (PmOver /\ pm.cb.failAt > 0 /\ pm.script = MilkThenFinal)
        => /\ pm.pc = "returned"
           /\ pm.result = Str(MilkAnswer)
           /\ \E r \in db.todos : r.title = "Buy milk" /\ createdFor[r.id] = pm.user

\* C15: with a callback supplied, every executed action is announced right before
\* its execution, its observation right after it, and the calendar-updated signal
\* follows the observation exactly for create_todo, update_todo, delete_todo and
\* mark_complete.
C15_NotificationOrder ==
    (PmEnded /\ pm.cb.supplied /\ pm.script = MixedThenFinal)
        => /\ Cardinality(EventsOf("exec")) = 4
           /\ \A k \in EventsOf("exec") :
                  LET ev == pm.events IN
                  /\ k > 1 /\ k < Len(ev)
                  /\ ev[k - 1].kind = "note"
                  /\ ev[k - 1].note.kind = "calling"
                  /\ ev[k - 1].note.action = ev[k].action
                  /\ ev[k + 1].kind = "note"
                  /\ ev[k + 1].note.kind = "observation"
                  /\ ev[k + 1].note.observation = ev[k].observation
                  /\ (ev[k].action \in MutatingTools)
                         <=> (/\ k + 2 <= Len(ev)
                              /\ ev[k + 2].kind = "note"
                              /\ ev[k + 2].note.kind = "calendar_updated")
           /\ Cardinality({k \in EventsOf("note") :
                               pm.events[k].note.kind = "calendar_updated"})
                  = Cardinality({k \in EventsOf("exec") :
                                     pm.events[k].action \in MutatingTools})

\* C19: the catalog is the six tools, and every invocation that ends without a
\* provider failure has sent it in the prompt of each of its steps.
C19_CatalogInEveryPrompt ==
    /\ Len(tools) = 6
    /\ {tools[k] : k \in 1..6} = {"create_todo", "get_all_todos", "update_todo",
                                  "delete_todo", "mark_complete", "analyze_todos"}
    /\ PmEnded
           => /\ EventsOf("send") # {}
              /\ \A k \in EventsOf("send") : pm.events[k].tools = tools

\* C20: the prompt of the first step has an empty scratchpad, and the prompt of
\* every later step has, in execution order, one entry for every action executed
\* before it is sent; a step is sent only after the actions of the step before.
C20_ScratchpadAppendOnly ==
    (PmEnded /\ pm.script \in {MixedThenFinal, AlwaysCreates})
        => /\ pm.sends >= 2
           /\ Cardinality(EventsOf("send")) = pm.sends
           /\ \A k \in EventsOf("send") :
                  LET e    == pm.events[k]
                      done == ExecBefore(k)
                  IN  /\ e.step = 1 => e.scratchpad = <<>>
                      /\ Len(e.scratchpad) = Len(done)
                      /\ \A i \in 1..Len(done) :
                             /\ e.scratchpad[i].action = done[i].action
                             /\ e.scratchpad[i].observation = done[i].observation
                      /\ e.step > 1 => Len(e.scratchpad) >= e.step - 1

\* A worker is inside its process_message invocation.
InProcessMessage(w) == workers[w].pc \in {"ensure", "session", "context"}

\* C18: no two process_message invocations for one owner are in progress at the
\* same time.
C18_OneInvocationPerOwner ==
    \A v, w \in 1..Len(workers) :
        (v # w /\ InProcessMessage(v) /\ InProcessMessage(w))
            => workers[v].user # workers[w].user

\* C21: start_session without force_new on a stored session that has not expired
\* makes no provider call and leaves the stored identity and expiry as they are;
\* with force_new it asks the provider for a thread also when the stored session
\* has not expired, and when the provider answers the stored record is
\* overwritten with the new identity.
C21_PureReadOrForcedNew ==
    [][(/\ last'.op = "start_session"
        /\ threads[last'.user].thread_id # NoId
        /\ now < threads[last'.user].expires_at)
           => IF ~last'.force
              THEN /\ prov' = prov
                   /\ threads' = threads
                   /\ assistants' = assistants
                   /\ last'.exc = ""
                   /\ last'.ret = threads[last'.user].thread_id
              ELSE /\ prov'.threadCalls = prov.threadCalls + 1
                   /\ last'.exc = ""
                          => /\ last'.ret = prov'.threadsIssued
                             /\ last'.ret > prov.threadsIssued
                             /\ last'.ret # threads[last'.user].thread_id
                             /\ threads'[last'.user].thread_id = last'.ret]_vars

C21_Witness ==
    /\ last.op = "start_session"
    /\ last.force
    /\ last.before.thread_id # NoId
    /\ now < last.before.expires_at
    /\ last.exc = ""
    /\ threads[last.user].thread_id = last.ret
    /\ last.ret # last.before.thread_id

\* C22: a session that start_session creates is stored with the expiry now +
\* ttl_minutes, and now + 120 when ttl_minutes is not supplied, which is how
\* process_message calls it.
C22_ExpiryIsCreationPlusTtl ==
    [][\A u \in Owners :
          (threads'[u] # threads[u] /\ threads'[u].thread_id # NoId)
              => threads'[u].expires_at =
                     now + (IF last'.op = "start_session" /\ last'.ttl # TtlNotSupplied
                            THEN last'.ttl
                            ELSE 120)]_vars

C22_Witness ==
    /\ last.op = "start_session"
    /\ last.ttl = TtlNotSupplied
    /\ last.threadCalls = 1
    /\ last.exc = ""
    /\ now > 0
    /\ threads[last.user] = [thread_id |-> last.ret, expires_at |-> now + 120]

\* The rows of the store that were created for an owner.
RowsOf(u) == {r \in db.todos : createdFor[r.id] = u}

\* C23: the get_all_todos action executed for an owner is answered with exactly
\* the tasks created for that owner, each once, newest-created first, and the
\* analyze_todos action with counts over those tasks only.
C23_ListIsOwnersNewestFirst ==
    /\ (last.op = "tool" /\ last.action = "get_all_todos")
           => /\ last.obs.kind = "list"
              /\ LET items == last.obs.items IN
                  /\ {items[i].row : i \in 1..Len(items)} = RowsOf(last.user)
                  /\ Len(items) = Cardinality(RowsOf(last.user))
                  /\ \A i, j \in 1..Len(items) :
                         i < j => items[i].row.created_at >= items[j].row.created_at
    /\ (last.op = "tool" /\ last.action = "analyze_todos")
           => /\ last.obs.kind = "stats"
              /\ last.obs.total = Cardinality(RowsOf(last.user))

\* C24: the created timestamp of a task is the one it was created with: no call
\* of the store (create_todo, update_todo with any updates, delete_todo,
\* mark_complete, get_all_todos) changes the created_at of a stored task.
C24_CreatedAtImmutable ==
    [][\A r \in db.todos : \A q \in db'.todos :
          q.id = r.id => q.created_at = r.created_at]_vars

\* C25: every stored task has a title that is present and not empty, whatever
\* create_todo and update_todo were called with.
C25_TitleNonEmpty ==
    \A r \in db.todos : r.title \notin {None, ""}

\* The content parsed last holds a {...} span that json.loads accepts as an
\* object with an action or actions key.
StrictParsed ==
    /\ last.content.kind = "str"
    /\ last.content.body.t = "braces"
    /\ last.content.body.json.ok
    /\ (Has(last.content.body.json.value, "action")
            \/ Has(last.content.body.json.value, "actions"))

\* One delete_todo action for each of the ids, in their order.
Deletes(ids) ==
    [i \in 1..Len(ids) |-> [action |-> "delete_todo", action_input |-> [todo_id |-> ids[i]]]]

\* C26: the parser returns the object of the {...} span as it is whenever that
\* object has an action or actions key, whatever the scans would find; only
\* otherwise it returns the action blocks of the scan, and only when there are
\* none the delete_todo actions of the todo_id scan.
C26_ParserStrategyOrder ==
    (/\ last.op = "parse"
     /\ last.content.kind = "str"
     /\ last.content.body.t = "braces")
        => LET body == last.content.body IN
           IF StrictParsed
           THEN last.parsed = body.json.value
           ELSE IF body.blocks # <<>>
           THEN /\ last.parsed # NoParse
                /\ last.parsed.actions.items = body.blocks
           ELSE IF body.delete /\ body.ids # <<>>
           THEN /\ last.parsed # NoParse
                /\ last.parsed.actions.items = Deletes(body.ids)
           ELSE last.parsed = NoParse

C26_Witness ==
    /\ last.op = "parse"
    /\ StrictParsed
    /\ last.content.body.blocks # <<>>
    /\ last.content.body.delete
    /\ last.content.body.ids # <<>>
    /\ last.parsed = last.content.body.json.value

\* C27: for every text in which neither the strict parse nor the action-block
\* scan finds an action and which holds delete_todo and at least one
\* "todo_id":".." pair, with or without a {...} span, the parser returns one
\* delete_todo action per pair, in the order of the text.
C27_TodoIdFallback ==
    (/\ last.op = "parse"
     /\ last.content.kind = "str"
     /\ last.content.body.t \in {"free", "braces"}
     /\ ~StrictParsed
     /\ last.content.body.t = "braces" => last.content.body.blocks = <<>>
     /\ last.content.body.delete
     /\ last.content.body.ids # <<>>)
        => /\ last.parsed # NoParse
           /\ last.parsed.actions.items = Deletes(last.content.body.ids)

\* C28: in an invocation that has its assistant, the system prompt reaches the
\* model through exactly one channel: it is held by the assistant exactly when
\* the invocation does not put it into its step requests, and every step request
\* that was sent carries the text when the assistant does not hold it and no
\* system prompt when it does.
C28_OnePromptChannel ==
    (/\ pm.pc \in {"session", "context", "returned", "raised"}
     /\ assistants[pm.user] # NoId)
        => /\ (prov.prompts[pm.user] = DefaultSystemPrompt) <=> ~pm.merge_prompt
           /\ \A k \in EventsOf("send") :
                  pm.events[k].system_prompt =
                      IF prov.prompts[pm.user] = DefaultSystemPrompt
                      THEN ""
                      ELSE DefaultSystemPrompt

\* The rows created for an owner that carry a tag of this name.
RowsTagged(u, name) ==
    {r \in RowsOf(u) : \E tg \in _get_todo_tags(db, r.id) : tg.name = name}

\* C29: the analyze_todos action executed for an owner is answered with the
\* number of the owner's tasks, of the completed and of the pending ones, total
\* being their sum, and with the number of the owner's tasks under each tag name
\* they carry; the action leaves the store as it is.
C29_AnalyzeCountsOwnersTasks ==
    /\ [](( last.op = "tool" /\ last.action = "analyze_todos")
              => /\ last.obs.kind = "stats"
                 /\ last.obs.total = Cardinality(RowsOf(last.user))
                 /\ last.obs.completed =
                        Cardinality({r \in RowsOf(last.user) : r.completed = TRUE})
                 /\ last.obs.total = last.obs.completed + last.obs.pending
                 /\ DOMAIN last.obs.tags_distribution =
                        {n \in {tg.name : tg \in db.tags} : RowsTagged(last.user, n) # {}}
                 /\ \A n \in DOMAIN last.obs.tags_distribution :
                        last.obs.tags_distribution[n]
                            = Cardinality(RowsTagged(last.user, n)))
    /\ [][(last'.op = "tool" /\ last'.action = "analyze_todos") => db' = db]_vars

\* C30: an invocation that reaches its end without a provider or callback failure
\* has sent a first prompt, and the task snapshot of that prompt is the list of
\* the tasks the store holds for the owner when the invocation reads it, with an
\* empty scratchpad, whatever earlier invocations read or wrote.
C30_FreshContext ==
    [][(/\ pm.pc = "context"
        /\ pm'.pc \in {"returned", "raised"}
        /\ pm'.exc # "ProviderError"
        /\ pm.cb.failAt = 0)
           => LET ev    == pm'.events
                  first == {k \in 1..Len(ev) : ev[k].kind = "send" /\ ev[k].step = 1}
              IN  /\ first # {}
                  /\ \A k \in first :
                         /\ ev[k].scratchpad = <<>>
                         /\ ev[k].context.kind = "list"
                         /\ Len(ev[k].context.items) = Cardinality(RowsOf(pm.user))
                         /\ {ev[k].context.items[i].row :
                                 i \in 1..Len(ev[k].context.items)} = RowsOf(pm.user)]_vars

\* C31: update_todo, delete_todo or mark_complete executed for an owner with the
\* id of a stored task that create_todo created for that owner is not answered
\* with unauthorized_or_not_found, and the update, deletion or completion is
\* applied to the task.
C31_OwnTaskIsRecognised ==
    [][(/\ last'.op = "tool"
        /\ last'.action \in {"update_todo", "delete_todo", "mark_complete"}
        /\ Has(last'.action_input, "todo_id")
        /\ last'.action_input["todo_id"].kind = "int"
        /\ \E r \in db.todos :
               /\ r.id = last'.action_input["todo_id"].n
               /\ createdFor[r.id] = last'.user)
           => /\ last'.obs # Unauthorized
              /\ LET n    == last'.action_input["todo_id"].n
                     rows == {r \in db'.todos : r.id = n}
                 IN  CASE last'.action = "delete_todo" -> rows = {}
                       [] last'.action = "mark_complete" ->
                              \A r \in rows : r.completed = TRUE
                       [] OTHER -> \A r \in rows : r.title = "Z"]_vars

\* C32: a tool execution that is answered with an {error: ...} observation leaves
\* the tables of the store (task rows, their fields, tags and tag links) as they
\* were before it.
C32_FailedToolLeavesStore ==
    [][(last'.op = "tool" /\ last'.obs.kind = "error")
           => /\ db'.todos = db.todos
              /\ db'.tags = db.tags
              /\ db'.todo_tags = db.todo_tags]_vars

C34_OneThreadPerInvocation ==
    PmEnded
        => /\ pm.sentTo # <<>>
           /\ \A k \in 1..Len(pm.sentTo) : pm.sentTo[k] = pm.thread

\* C36: end_session called with delete_thread for an owner who has a stored
\* session record, expired or not, asks the provider to delete the thread of
\* that record and leaves no record for the owner.
C36_EndSessionDeletesStoredThread ==
    [][(/\ last'.op = "end_session"
        /\ last'.delete_thread
        /\ threads[last'.user].thread_id # NoId)
           => /\ threads[last'.user].thread_id \in prov'.deleteCalls
              /\ threads'[last'.user].thread_id = NoId]_vars

\* C37: an invocation whose every reply is a create_todo action ends, without a
\* provider or callback failure, having sent the prompts of several steps, and
\* every one of them carries the task snapshot of the first, while the tasks its
\* actions created are in the store and in the scratchpad observations.
C37_SnapshotTakenOnce ==
    (PmEnded /\ pm.script = AlwaysCreates)
        => /\ \E k \in EventsOf("send") : pm.events[k].step > 1
           /\ \A j, k \in EventsOf("send") :
                  pm.events[j].context = pm.events[k].context
           /\ \A k \in EventsOf("send") :
                  /\ Len(pm.events[k].scratchpad) = pm.events[k].step - 1
                  /\ \A i \in 1..Len(pm.events[k].scratchpad) :
                         pm.events[k].scratchpad[i].observation.kind = "todo"
           /\ \E r \in db.todos : createdFor[r.id] = pm.user

\* C38: a plural reply never ends the loop and its final field is not the answer:
\* for the replies (actions [final, create_todo] with final "bye"), (no actions,
\* final "bye"), (action final, final "ok") the invocation returns "ok" after three
\* round trips; the entry {action: final} is executed as an unknown tool with an
\* error observation, and the reply without actions executes nothing and leaves
\* the scratchpad of the third prompt as it was in the second.
C38_OnlyTopLevelFinalEnds ==
    (PmEnded /\ pm.script = PluralFinalEntry)
        => /\ pm.pc = "returned"
           /\ pm.result = Str("ok")
           /\ pm.sends = 3
           /\ Len(pm.executed) = 2
           /\ \A i \in 1..Len(pm.executed) : pm.executed[i].step = 1
           /\ pm.executed[1].action = "final"
           /\ pm.scratchpad[1].observation = ErrorObs("ValueError: Unknown tool")
           /\ \A j, k \in EventsOf("send") :
                  (pm.events[j].step = 2 /\ pm.events[k].step = 3)
                      => /\ pm.events[j].scratchpad = pm.events[k].scratchpad
                         /\ Len(pm.events[j].scratchpad) = 2

\* C39: the loop of an invocation whose every reply is a create_todo action ends
\* either with the step-limit message or, when a provider round trip of some step
\* fails, raised with that failure: then no message was sent after the failed one
\* (no retry), no action was executed after it, and the tasks created in the
\* steps before it are all in the store.
C39_FailureRaisedNoRollback ==
    [][(/\ pm.pc = "context"
        /\ pm'.pc \in {"returned", "raised"}
        /\ pm.script = AlwaysCreates
        /\ pm.cb.failAt = 0)
           => \/ /\ pm'.pc = "returned"
                 /\ pm'.result = StepLimitMessage
              \/ /\ pm'.pc = "raised"
                 /\ pm'.exc = "ProviderError"
                 /\ pm'.sends <= MaxSteps
                 /\ prov'.sent = prov.sent + pm'.sends
                 /\ Len(pm'.executed) \in {pm'.sends - 1, pm'.sends}
                 /\ \A i \in 1..Len(pm'.executed) : pm'.executed[i].step = i
                 /\ Cardinality(db'.todos) = Cardinality(db.todos) + Len(pm'.executed)]_vars

\* C35: whatever the interleaving of the calls of two workers of one owner, the
\* assistant identity and the thread identity a worker got back from
\* ensure_assistant and start_session are the ones the store holds for the owner,
\* so that the workers of one owner have one assistant and one thread.
C35_OneIdentityPerOwner ==
    \A w \in 1..Len(workers) :
        /\ workers[w].aid # NoId => workers[w].aid = assistants[workers[w].user]
        /\ workers[w].tid # NoId => workers[w].tid = threads[workers[w].user].thread_id

=============================================================================
